---- MODULE Spec2Model ----
\* A model of expand_dividends.py: the Dividend record, the lookup and
\* averaging helpers, daily_dividends (interpolation and extrapolation), and
\* the file pipeline of main (read_src_file, daily_dividends, write_csv_file).
\*
\* Dates given as datetime objects are integers (a day number, day 0 being
\* 2020-01-01); a timedelta is an integer number of days.  A date given as
\* text is a record [y, m, d] of the three fields of the %Y-%m-%d pattern and
\* is converted with the calendar arithmetic of strptime.  Amounts are exact
\* fractions num/den (the floating-point rounding of a quotient is not
\* modelled); the absent amount (Python None) is the value None.
EXTENDS Integers, Sequences, FiniteSets

\* ---------------------------------------------------------------- bounds
MaxLen == 3        \* longest event list passed to a function
MaxDate == 3       \* event dates of the function calls are 0..MaxDate
MaxRows == 3       \* most lines in a source file (header included)

\* ------------------------------------------------------------- amounts
RECURSIVE GCD(_, _)
GCD(a, b) == IF b = 0 THEN a ELSE GCD(b, a % b)

Abs(x) == IF x < 0 THEN -x ELSE x

None == [isNone |-> TRUE, num |-> 0, den |-> 1]

\* The value of the quotient n / d (d # 0), in lowest terms.
Rat(n, d) ==
    LET g == GCD(Abs(n), Abs(d))
        s == IF d < 0 THEN -1 ELSE 1
    IN [isNone |-> FALSE, num |-> (s * n) \div g, den |-> (s * d) \div g]

\* float(text) for the amount texts a source file may hold; "n/a" is not a
\* number and makes float raise ValueError.
AmountTexts == {"0.3", ".3", "0.6", "n/a"}
IsNumberText(t) == t \in {"0.3", ".3", "0.6"}
float(t) ==
    CASE t = "0.3" -> Rat(3, 10)
      [] t = ".3"  -> Rat(3, 10)
      [] t = "0.6" -> Rat(6, 10)

\* amount / k for an integer k # 0 (true division).
TrueDiv(a, k) == Rat(a.num, a.den * k)

\* math.ceil of a fraction.
ceil_floor(r) == r.num \div r.den
ceil(r) == -((-r.num) \div r.den)

\* ------------------------------------------------------------ calendar
IsLeap(y) == (y % 4 = 0) /\ ((y % 100 # 0) \/ (y % 400 = 0))

DaysInMonth(y, m) ==
    CASE m \in {1, 3, 5, 7, 8, 10, 12} -> 31
      [] m \in {4, 6, 9, 11} -> 30
      [] m = 2 -> IF IsLeap(y) THEN 29 ELSE 28

RECURSIVE DaysBeforeMonth(_, _)
DaysBeforeMonth(y, m) ==
    IF m = 1 THEN 0 ELSE DaysBeforeMonth(y, m - 1) + DaysInMonth(y, m - 1)

RECURSIVE DaysBeforeYear(_)
DaysBeforeYear(y) ==
    IF y <= 2020 THEN 0
    ELSE DaysBeforeYear(y - 1) + (IF IsLeap(y - 1) THEN 366 ELSE 365)

\* datetime.strptime(text, DATE_FORMAT): the text matches when its month and
\* day name a calendar day; otherwise ValueError.
DateMatches(t) ==
    /\ t.m \in 1..12
    /\ t.d >= 1
    /\ t.d <= DaysInMonth(t.y, t.m)

strptime(t) == DaysBeforeYear(t.y) + DaysBeforeMonth(t.y, t.m) + (t.d - 1)

\* date.strftime(DATE_FORMAT): the fields of the calendar day numbered n.
strftime(n) ==
    CHOOSE t \in [y : 2020..2021, m : 1..12, d : 1..31] :
        DateMatches(t) /\ strptime(t) = n

\* ------------------------------------------------------------ Dividend
\* Dividend(date, dividend) with a datetime and an amount that is not text
\* (lines 24 and 30): both are stored as given.
Dividend(date, dividend) == [date |-> date, dividend |-> dividend]

\* Python's stable sort by key x.date.
RECURSIVE InsertByDate(_, _)
InsertByDate(s, e) ==
    IF s = <<>> THEN <<e>>
    ELSE IF s[Len(s)].date <= e.date THEN Append(s, e)
    ELSE Append(InsertByDate(SubSeq(s, 1, Len(s) - 1), e), s[Len(s)])

RECURSIVE SortByDate(_)
SortByDate(s) ==
    IF s = <<>> THEN <<>>
    ELSE InsertByDate(SortByDate(SubSeq(s, 1, Len(s) - 1)), s[Len(s)])

\* The outcome of a call: a value returned normally ("ok"), None returned
\* normally ("returnNone"), or the exception raised.
Returned(v) == [kind |-> "ok", value |-> v]
ReturnedNone == [kind |-> "returnNone", value |-> <<>>]
Raised(e) == [kind |-> e, value |-> <<>>]

\* last_dividend_before: the element before the first one dated after `date`
\* in the sorted copy; index i-1 of Python wraps to the last element for i = 0.
RECURSIVE FirstAfter(_, _, _)
FirstAfter(s, date, i) ==
    IF i > Len(s) THEN 0
    ELSE IF s[i].date > date THEN i
    ELSE FirstAfter(s, date, i + 1)

last_dividend_before(dividends, date) ==
    LET sorted == SortByDate(dividends)
        i == FirstAfter(sorted, date, 1)
    IN IF i = 0 THEN ReturnedNone
       ELSE IF i = 1 THEN Returned(sorted[Len(sorted)])
       ELSE Returned(sorted[i - 1])

\* avg_days_between: the loop adds the day count between each element and the
\* one before it in the sorted copy, then divides by len - 1.
RECURSIVE SumDaysBetween(_, _)
SumDaysBetween(s, i) ==
    IF i > Len(s) THEN 0
    ELSE (s[i].date - s[i - 1].date) + SumDaysBetween(s, i + 1)

avg_days_between_unsorted(dividends) ==
    LET s == SumDaysBetween(dividends, 2)
        n == Len(dividends)
    IN IF n - 1 = 0 THEN Raised("ZeroDivisionError")
       ELSE Returned(Rat(s, n - 1))

avg_days_between(dividends) ==
    LET sorted == SortByDate(dividends)
        s == SumDaysBetween(sorted, 2)
        n == Len(sorted)
    IN IF n - 1 = 0 THEN Raised("ZeroDivisionError")
       ELSE Returned(Rat(s, n - 1))

\* ------------------------------------------------------ daily_dividends
\* The inner loop of lines 107-108 and 112-113: one record per d in
\* range(days_between), from offset d on, dated start + d, each carrying
\* amount / days_between.
RECURSIVE Spread_inclusive(_, _, _, _)
Spread_inclusive(start, amount, days_between, d) ==
    IF d > days_between THEN <<>>
    ELSE <<Dividend(start + d, TrueDiv(amount, IF days_between = 0 THEN 1 ELSE days_between))>>
         \o Spread_inclusive(start, amount, days_between, d + 1)

RECURSIVE Spread(_, _, _, _)
Spread(start, amount, days_between, d) ==
    IF d >= days_between THEN <<>>
    ELSE <<Dividend(start + d, TrueDiv(amount, days_between))>>
         \o Spread(start, amount, days_between, d + 1)

\* The loop of lines 102-108 from index i on (1-based; the code's i == 0 is
\* skipped, so it starts at the second element).  Dividing an absent amount
\* raises TypeError, which only happens when the inner loop runs at all.
RECURSIVE Interpolate_later(_, _)
Interpolate_later(dividends, i) ==
    IF i > Len(dividends) THEN Returned(<<>>)
    ELSE LET last_div == dividends[i - 1]
             div == dividends[i]
             days_between == div.date - last_div.date
         IN IF days_between > 0 /\ div.dividend.isNone THEN Raised("TypeError")
            ELSE LET rest == Interpolate_later(dividends, i + 1)
                 IN IF rest.kind # "ok" THEN rest
                    ELSE Returned(Spread(last_div.date, div.dividend, days_between, 0)
                                  \o rest.value)

RECURSIVE Interpolate(_, _)
Interpolate(dividends, i) ==
    IF i > Len(dividends) THEN Returned(<<>>)
    ELSE LET last_div == dividends[i - 1]
             div == dividends[i]
             days_between == div.date - last_div.date
         IN IF days_between > 0 /\ last_div.dividend.isNone THEN Raised("TypeError")
            ELSE LET rest == Interpolate(dividends, i + 1)
                 IN IF rest.kind # "ok" THEN rest
                    ELSE Returned(Spread(last_div.date, last_div.dividend, days_between, 0)
                                  \o rest.value)

\* Lines 111-113: the records of the predicted period after the last element
\* of the (sorted) list.
Extrapolate_next_day(dividends) ==
    LET avg == avg_days_between(dividends)
        last == dividends[Len(dividends)]
    IN IF avg.kind # "ok" THEN avg
       ELSE LET days_between == ceil(avg.value)
            IN IF days_between > 0 /\ last.dividend.isNone THEN Raised("TypeError")
               ELSE Returned(Spread(last.date + 1, last.dividend, days_between, 0))

Extrapolate(dividends) ==
    LET avg == avg_days_between(dividends)
        last == dividends[Len(dividends)]
    IN IF avg.kind # "ok" THEN avg
       ELSE LET days_between == ceil(avg.value)
            IN IF days_between > 0 /\ last.dividend.isNone THEN Raised("TypeError")
               ELSE Returned(Spread(last.date, last.dividend, days_between, 0))

\* min / max of the dates of a non-empty list (line 94).
MinDate(s) == CHOOSE x \in {s[i].date : i \in 1..Len(s)} :
                  \A j \in 1..Len(s) : x <= s[j].date
MaxDate1(s) == (CHOOSE x \in {s[i].date : i \in 1..Len(s)} :
                  \A j \in 1..Len(s) : x >= s[j].date) + 1

\* daily_dividends(dividends, predict_future_dividend): the outcome, and in
\* `dividends` the caller's list as the call leaves it (line 93 sorts it in
\* place before anything can fail; min() of an empty list raises ValueError).
daily_dividends(dividends, predict_future_dividend) ==
    LET sorted == SortByDate(dividends)
        Out(r) == [kind |-> r.kind, value |-> r.value, dividends |-> sorted]
    IN IF Len(sorted) = 0 THEN Out(Raised("ValueError"))
       ELSE IF \/ MinDate(sorted) # sorted[1].date
               \/ MaxDate1(sorted) # sorted[Len(sorted)].date + 1
            THEN Out(Raised("AssertionError"))
       ELSE LET days == Interpolate(sorted, 2)
            IN IF days.kind # "ok" \/ ~predict_future_dividend THEN Out(days)
               ELSE LET future == Extrapolate(sorted)
                    IN IF future.kind # "ok" THEN Out(future)
                       ELSE Out(Returned(days.value \o future.value))

\* ------------------------------------------------- state: function calls
VARIABLES
    dividends,   \* the caller's list of Dividend objects
    call,        \* the last call made: its function and arguments
    result       \* the outcome of that call

\* ------------------------------------------------------ state: pipeline
VARIABLES
    srcExists,   \* whether the --src path exists
    srcFile,     \* the lines of the source file, each a sequence of cells
    pc,          \* where main is
    readHandle,  \* the file object opened by csv_file
    pos,         \* number of lines of srcFile the reader has consumed
    events,      \* the list read_src_file builds and returns
    days,        \* the list daily_dividends returned
    writeHandle, \* the file object opened by write_csv_file
    dstFile,     \* the rows handed to the csv writer of the destination
    error        \* the exception that ended main, "" if none

fnVars == <<dividends, call, result>>
pipeVars == <<srcExists, srcFile, pc, readHandle, pos, events, days,
              writeHandle, dstFile, error>>
vars == <<dividends, call, result, srcExists, srcFile, pc, readHandle, pos,
          events, days, writeHandle, dstFile, error>>

\* Event lists of the function calls.
Dates == 0..MaxDate
AmountValues == {float(t) : t \in {x \in AmountTexts : IsNumberText(x)}} \cup {None}
Events == {Dividend(d, a) : d \in Dates, a \in AmountValues}
Lists == UNION {[1..n -> Events] : n \in 0..MaxLen}

NoCall == [fn |-> "none", arg |-> <<>>, date |-> 0, predict |-> FALSE]

PipeIdle ==
    /\ srcExists = FALSE
    /\ srcFile = <<>>
    /\ pc = "idle"
    /\ readHandle = "unopened"
    /\ pos = 0
    /\ events = <<>>
    /\ days = <<>>
    /\ writeHandle = "unopened"
    /\ dstFile = <<>>
    /\ error = ""

FnIdle ==
    /\ dividends = <<>>
    /\ call = NoCall
    /\ result = Raised("none")

\* ------------------------------------------------ the function calls
Init ==
    /\ dividends \in Lists
    /\ call = NoCall
    /\ result = Raised("none")
    /\ PipeIdle

CallLastDividendBefore ==
    \E date \in (-1)..(MaxDate + 1) :
        /\ call' = [fn |-> "last_dividend_before", arg |-> dividends,
                    date |-> date, predict |-> FALSE]
        /\ result' = last_dividend_before(dividends, date)
        /\ UNCHANGED dividends
        /\ UNCHANGED pipeVars

CallAvgDaysBetween ==
    /\ call' = [fn |-> "avg_days_between", arg |-> dividends,
                date |-> 0, predict |-> FALSE]
    /\ result' = avg_days_between(dividends)
    /\ UNCHANGED dividends
    /\ UNCHANGED pipeVars

CallDailyDividends ==
    \E predict \in BOOLEAN :
        LET r == daily_dividends(dividends, predict)
        IN /\ call' = [fn |-> "daily_dividends", arg |-> dividends,
                       date |-> 0, predict |-> predict]
           /\ result' = [kind |-> r.kind, value |-> r.value]
           /\ dividends' = r.dividends
           /\ UNCHANGED pipeVars

Next ==
    \/ CallLastDividendBefore
    \/ CallAvgDaysBetween
    \/ CallDailyDividends

Spec == Init /\ [][Next]_vars

\* ------------------------------------------------------- the pipeline
\* The lines of a source file.  A line is the sequence of its cells: a blank
\* line has none; the first cell is a date text, the second an amount text.
NotADate == [y |-> 0, m |-> 0, d |-> 0]
Feb28 == [y |-> 2020, m |-> 2, d |-> 28]
Feb30 == [y |-> 2020, m |-> 2, d |-> 30]
Mar01 == [y |-> 2020, m |-> 3, d |-> 1]
HeaderLine == <<NotADate, "n/a">>
Lines ==
    {<<>>, HeaderLine, <<Feb28>>, <<Feb28, ".3">>, <<Feb28, "n/a">>,
     <<Feb28, "0.3", "x">>}
    \cup {<<t, a>> : t \in {Feb28, Feb30, Mar01}, a \in {"0.3", "0.6"}}
Files == UNION {[1..n -> Lines] : n \in 0..MaxRows}

\* csv.DictReader (lines 44-46): the index of the next line after `p` that is
\* not blank (blank lines are never yielded), 0 when the file is exhausted.
RECURSIVE NextRow(_, _)
NextRow(file, p) ==
    IF p + 1 > Len(file) THEN 0
    ELSE IF file[p + 1] # <<>> THEN p + 1
    ELSE NextRow(file, p + 1)

\* Dividend(**div) for a row of the reader (line 55, lines 16-30): a third
\* cell arrives under the key None, which __init__ does not accept; the date
\* text is parsed first, then the amount text; a missing amount cell is None.
DividendOfRow(row) ==
    IF Len(row) > 2 THEN Raised("TypeError")
    ELSE IF ~DateMatches(row[1]) THEN Raised("ValueError")
    ELSE IF Len(row) = 1 THEN Returned(Dividend(strptime(row[1]), None))
    ELSE IF ~IsNumberText(row[2]) THEN Raised("ValueError")
    ELSE Returned(Dividend(strptime(row[1]), float(row[2])))

\* Line 56 of read_src_file.
read_src_file_unsorted(rows) == rows
read_src_file_sort(rows) == SortByDate(rows)

InitPipeline ==
    /\ FnIdle
    /\ srcExists \in BOOLEAN
    /\ srcFile \in (IF srcExists THEN Files ELSE {<<>>})
    /\ pc = "main"
    /\ readHandle = "unopened"
    /\ pos = 0
    /\ events = <<>>
    /\ days = <<>>
    /\ writeHandle = "unopened"
    /\ dstFile = <<>>
    /\ error = ""

\* main, lines 139-142: a missing source is logged and main returns 1.
CheckSrc ==
    /\ pc = "main"
    /\ pc' = IF srcExists THEN "read_src_file" ELSE "returned1"
    /\ UNCHANGED <<srcExists, srcFile, readHandle, pos, events, days,
                   writeHandle, dstFile, error>>
    /\ UNCHANGED fnVars

\* read_src_file, lines 50-52: the first __next__ of the generator opens the
\* file and yields the first row, which is dropped.  With no row at all the
\* generator returns and __next__ raises StopIteration; the file object of the
\* finished generator is then unreferenced, and whether that closes it is up
\* to the runtime (reference counting closes it, a deferred collector may not).
SkipHeader ==
    /\ pc = "read_src_file"
    /\ LET r == NextRow(srcFile, 0)
       IN IF r = 0
          THEN /\ pc' = "failed"
               /\ error' = "StopIteration"
               /\ pos' = Len(srcFile)
               /\ readHandle' \in {"open", "closed"}
          ELSE /\ pc' = "read_rows"
               /\ error' = error
               /\ pos' = r
               /\ readHandle' = "open"
    /\ UNCHANGED <<srcExists, srcFile, events, days, writeHandle, dstFile>>
    /\ UNCHANGED fnVars

\* read_src_file, lines 54-55: one iteration of the loop.  An exception of
\* Dividend leaves the generator suspended with its file open.
ReadRow ==
    /\ pc = "read_rows"
    /\ NextRow(srcFile, pos) # 0
    /\ LET r == NextRow(srcFile, pos)
           div == DividendOfRow(srcFile[r])
       IN /\ pos' = r
          /\ IF div.kind = "ok"
             THEN /\ events' = Append(events, div.value)
                  /\ UNCHANGED <<pc, error>>
             ELSE /\ pc' = "failed"
                  /\ error' = div.kind
                  /\ UNCHANGED events
    /\ UNCHANGED <<srcExists, srcFile, readHandle, days, writeHandle, dstFile>>
    /\ UNCHANGED fnVars

\* read_src_file, lines 54, 56, 57: the reader is exhausted, the list is
\* sorted and returned.  The finished generator drops its file object.
ReadDone ==
    /\ pc = "read_rows"
    /\ NextRow(srcFile, pos) = 0
    /\ pos' = Len(srcFile)
    /\ events' = read_src_file_sort(events)
    /\ readHandle' \in {"open", "closed"}
    /\ pc' = "daily_dividends"
    /\ UNCHANGED <<srcExists, srcFile, days, writeHandle, dstFile, error>>
    /\ UNCHANGED fnVars

\* main, line 145.
RunDailyDividends ==
    /\ pc = "daily_dividends"
    /\ LET r == daily_dividends(events, TRUE)
       IN /\ events' = r.dividends
          /\ IF r.kind = "ok"
             THEN /\ days' = r.value
                  /\ pc' = "write_csv_file"
                  /\ UNCHANGED error
             ELSE /\ pc' = "failed"
                  /\ error' = r.kind
                  /\ UNCHANGED days
    /\ UNCHANGED <<srcExists, srcFile, readHandle, pos, writeHandle, dstFile>>
    /\ UNCHANGED fnVars

\* write_csv_file, lines 119-121: open the destination and write the header;
\* open itself may fail (OSError), and then there is no file object.
OpenDst ==
    /\ pc = "write_csv_file"
    /\ \E opened \in BOOLEAN :
          IF opened
          THEN /\ writeHandle' = "open"
               /\ dstFile' = <<<<"Date", "Dividend">>>>
               /\ pc' = "write_rows"
               /\ UNCHANGED error
          ELSE /\ pc' = "failed"
               /\ error' = "OSError"
               /\ UNCHANGED <<writeHandle, dstFile>>
    /\ UNCHANGED <<srcExists, srcFile, readHandle, pos, events, days>>
    /\ UNCHANGED fnVars

\* write_csv_file, lines 122-123: one row.
WriteRow ==
    /\ pc = "write_rows"
    /\ Len(dstFile) - 1 < Len(days)
    /\ LET d == days[Len(dstFile)]
       IN dstFile' = Append(dstFile, <<strftime(d.date), d.dividend>>)
    /\ UNCHANGED <<srcExists, srcFile, pc, readHandle, pos, events, days,
                   writeHandle, error>>
    /\ UNCHANGED fnVars

\* A write of the loop fails (OSError, raised when the buffer is flushed to
\* a destination that cannot take it): the with statement of line 119 closes
\* the file while the exception leaves write_csv_file.
WriteFails ==
    /\ pc = "write_rows"
    /\ Len(dstFile) - 1 < Len(days)
    /\ writeHandle' = "closed"
    /\ pc' = "failed"
    /\ error' = "OSError"
    /\ UNCHANGED <<srcExists, srcFile, readHandle, pos, events, days, dstFile>>
    /\ UNCHANGED fnVars

\* write_csv_file, line 122 exhausted: leaving the with block of line 119
\* closes the file.  The close flushes what is still buffered (the header
\* included) and can itself raise OSError; the file object is closed either
\* way, and main ends with the error.
WriteDone ==
    /\ pc = "write_rows"
    /\ Len(dstFile) - 1 = Len(days)
    /\ writeHandle' = "closed"
    /\ \E flushed \in BOOLEAN :
          IF flushed
          THEN /\ pc' = "done"
               /\ UNCHANGED error
          ELSE /\ pc' = "failed"
               /\ error' = "OSError"
    /\ UNCHANGED <<srcExists, srcFile, readHandle, pos, events, days, dstFile>>
    /\ UNCHANGED fnVars

NextPipeline ==
    \/ CheckSrc
    \/ SkipHeader
    \/ ReadRow
    \/ ReadDone
    \/ RunDailyDividends
    \/ OpenDst
    \/ WriteRow
    \/ WriteFails
    \/ WriteDone

SpecPipeline == InitPipeline /\ [][NextPipeline]_vars

\* ==================================================== properties
\* Vocabulary of the properties, defined without the operators above.
IsDaily == call.fn = "daily_dividends"
HasAmounts(s) == \A i \in 1..Len(s) : ~s[i].dividend.isNone
Ascending(s) == \A i \in 1..(Len(s) - 1) : s[i].date <= s[i + 1].date
DistinctDates(s) == \A i, j \in 1..Len(s) : i # j => s[i].date # s[j].date
Elems(s) == {s[i] : i \in 1..Len(s)}
FirstDate(s) == CHOOSE x \in {e.date : e \in Elems(s)} : \A e \in Elems(s) : x <= e.date
LastDate(s) == CHOOSE x \in {e.date : e \in Elems(s)} : \A e \in Elems(s) : x >= e.date
Perms(n) == {f \in [1..n -> 1..n] : \A i, j \in 1..n : i # j => f[i] # f[j]}
\* r is the amount a divided by k.
QuotientIs(r, a, k) == ~r.isNone /\ r.num * a.den * k = a.num * r.den
\* The sum of the day gaps between date-adjacent events of s.
RECURSIVE GapSumAlong(_, _, _)
GapSumAlong(s, p, i) ==
    IF i >= Len(s) THEN 0
    ELSE (s[p[i + 1]].date - s[p[i]].date) + GapSumAlong(s, p, i + 1)
GapSum(s) ==
    LET p == CHOOSE q \in Perms(Len(s)) :
                 \A i \in 1..(Len(s) - 1) : s[q[i]].date <= s[q[i + 1]].date
    IN GapSumAlong(s, p, 1)
\* The least integer not below the mean gap of s (Len(s) >= 2).
CeilMeanGap(s) ==
    CHOOSE k \in 0..(MaxDate + 1) :
        /\ k * (Len(s) - 1) >= GapSum(s)
        /\ (k - 1) * (Len(s) - 1) < GapSum(s)

\* C1: interpolation.  For a list of at least 2 events sorted ascending by
\* date (each carrying an amount), daily_dividends returns, for every
\* consecutive pair (prev, next) with gap = next.date - prev.date and every
\* offset d in [0, gap), exactly one record dated prev.date + d, and that
\* record carries prev.amount / gap; with extrapolation disabled every
\* returned record is one of these.
C1_Interpolation ==
    (IsDaily /\ Len(call.arg) >= 2 /\ Ascending(call.arg) /\ HasAmounts(call.arg)) =>
        /\ result.kind = "ok"
        /\ \A i \in 1..(Len(call.arg) - 1) :
             LET prev == call.arg[i]
                 gap == call.arg[i + 1].date - prev.date
             IN \A d \in 0..(gap - 1) :
                  /\ Cardinality({k \in 1..Len(result.value) :
                                    result.value[k].date = prev.date + d}) = 1
                  /\ \A k \in 1..Len(result.value) :
                        result.value[k].date = prev.date + d =>
                            QuotientIs(result.value[k].dividend, prev.dividend, gap)
        /\ ~call.predict =>
             \A k \in 1..Len(result.value) :
                \E i \in 1..(Len(call.arg) - 1) :
                   LET prev == call.arg[i]
                       gap == call.arg[i + 1].date - prev.date
                   IN /\ result.value[k].date \in prev.date..(prev.date + gap - 1)
                      /\ QuotientIs(result.value[k].dividend, prev.dividend, gap)

\* C1 witness: a sorted list whose first two events are at least 2 days apart
\* and carry different amounts was interpolated without extrapolation.
C1_Witness ==
      /\ IsDaily /\ ~call.predict
      /\ Len(call.arg) >= 3 /\ Ascending(call.arg) /\ HasAmounts(call.arg)
      /\ call.arg[2].date - call.arg[1].date >= 2
      /\ call.arg[3].date - call.arg[2].date >= 1
      /\ call.arg[1].dividend # call.arg[2].dividend
      /\ result.kind = "ok" /\ Len(result.value) >= 3

\* C2: extrapolation.  With predict_future_dividend true and at least 2 events
\* (each carrying an amount), let g be the mean gap of the input rounded up;
\* exactly g records follow the interpolated ones, the d-th of them
\* (d in [0, g)) dated last.date + d and carrying last.amount / g, last being
\* an event with the greatest date.
C2_Extrapolation ==
    (IsDaily /\ call.predict /\ Len(call.arg) >= 2 /\ HasAmounts(call.arg)) =>
        /\ result.kind = "ok"
        /\ LET avg == avg_days_between(call.arg).value
               g == CHOOSE k \in 0..(MaxDate + 1) :
                        k * avg.den >= avg.num /\ (k - 1) * avg.den < avg.num
               m == LastDate(call.arg) - FirstDate(call.arg)
           IN /\ Len(result.value) = m + g
              /\ \A k \in 1..m : result.value[k].date < LastDate(call.arg)
              /\ \E last \in Elems(call.arg) :
                    /\ last.date = LastDate(call.arg)
                    /\ \A d \in 0..(g - 1) :
                          /\ result.value[m + 1 + d].date = last.date + d
                          /\ QuotientIs(result.value[m + 1 + d].dividend,
                                        last.dividend, g)

\* C2 witness: an extrapolating call on a list whose mean gap is not a whole
\* number of days, so that rounding up and rounding down differ.
C2_Witness ==
      /\ IsDaily /\ call.predict /\ Len(call.arg) >= 3 /\ HasAmounts(call.arg)
      /\ GapSum(call.arg) % (Len(call.arg) - 1) # 0
      /\ result.kind = "ok"
      /\ Len(result.value) > LastDate(call.arg) - FirstDate(call.arg) + 1

\* C3: avg_days_between of n >= 2 events, passed in any order, is the sum of
\* the day gaps between date-adjacent events divided by n - 1; every
\* reordering of the list gives the same result, and the caller's list is
\* left as it was.
C3_AvgDaysBetween ==
    (call.fn = "avg_days_between" /\ Len(call.arg) >= 2) =>
        /\ result.kind = "ok"
        /\ ~result.value.isNone
        /\ result.value.num * (Len(call.arg) - 1) = GapSum(call.arg) * result.value.den
        /\ \A p \in Perms(Len(call.arg)) :
              avg_days_between([i \in 1..Len(call.arg) |-> call.arg[p[i]]]) = result
        /\ dividends = call.arg

\* C3 witness: the average of a list that is not in date order was taken.
C3_Witness ==
      /\ call.fn = "avg_days_between" /\ Len(call.arg) >= 3
      /\ call.arg[1].date > call.arg[2].date
      /\ call.arg[3].date > call.arg[1].date
      /\ result.kind = "ok" /\ result.value.num > 0

\* C4 (as claimed): whenever some event is dated strictly before the query
\* date, last_dividend_before returns an event of the list dated strictly
\* before the query date, and no event before the query date is later.
C4_GreatestStrictlyBefore ==
    (/\ call.fn = "last_dividend_before"
     /\ \E e \in Elems(call.arg) : e.date < call.date) =>
        /\ result.kind = "ok"
        /\ result.value \in Elems(call.arg)
        /\ result.value.date < call.date
        /\ \A e \in Elems(call.arg) : e.date < call.date => e.date <= result.value.date

\* C5 (as claimed): avg_days_between and daily_dividends of fewer than 2
\* events end in InsufficientDataError.
C5_InsufficientData ==
    (call.fn \in {"avg_days_between", "daily_dividends"} /\ Len(call.arg) < 2) =>
        result.kind = "InsufficientDataError"

\* C6 (as claimed): daily_dividends of a list holding two events with the
\* same date ends in a failure and never returns normally.
C6_DuplicateDatesFail ==
    (IsDaily /\ ~DistinctDates(call.arg)) => result.kind \notin {"ok", "returnNone"}

\* C7: date coverage of daily_dividends for at least 2 events (each carrying
\* an amount).  Without extrapolation every returned date d satisfies
\* first.date <= d < last.date, so none is the last event date; with
\* extrapolation and a mean gap of at least 1 day some record is dated
\* last.date.
C7_DateCoverage ==
    (IsDaily /\ Len(call.arg) >= 2 /\ HasAmounts(call.arg)) =>
        /\ result.kind = "ok"
        /\ ~call.predict =>
              \A k \in 1..Len(result.value) :
                 /\ FirstDate(call.arg) <= result.value[k].date
                 /\ result.value[k].date < LastDate(call.arg)
        /\ (call.predict /\ GapSum(call.arg) >= Len(call.arg) - 1) =>
              \E k \in 1..Len(result.value) : result.value[k].date = LastDate(call.arg)

\* C7 witness: a call without extrapolation returned records up to the day
\* before the last event date.
C7_Witness ==
      /\ IsDaily /\ ~call.predict /\ Len(call.arg) >= 2 /\ HasAmounts(call.arg)
      /\ result.kind = "ok"
      /\ \E k \in 1..Len(result.value) :
            result.value[k].date = LastDate(call.arg) - 1

\* C8: for at least 2 events with pairwise distinct dates (each carrying an
\* amount), in any order, with extrapolation, the k-th returned record is
\* dated first.date + k - 1 and there are (last.date - first.date) + g of
\* them, g the mean gap rounded up: strictly ascending, every day from
\* first.date through last.date + g - 1 exactly once.
C8_OrderAndCoverage ==
    (/\ IsDaily /\ call.predict /\ Len(call.arg) >= 2
     /\ DistinctDates(call.arg) /\ HasAmounts(call.arg)) =>
        /\ result.kind = "ok"
        /\ Len(result.value) =
              (LastDate(call.arg) - FirstDate(call.arg)) + CeilMeanGap(call.arg)
        /\ \A k \in 1..Len(result.value) :
              result.value[k].date = FirstDate(call.arg) + k - 1

\* C8 witness: an extrapolating call on three events with distinct dates that
\* were not passed in date order.
C8_Witness ==
      /\ IsDaily /\ call.predict /\ Len(call.arg) >= 3
      /\ DistinctDates(call.arg) /\ HasAmounts(call.arg)
      /\ ~Ascending(call.arg)
      /\ result.kind = "ok" /\ Len(result.value) >= 4

\* The rows of the source after the header, in file order, as events.
RowsAfterHeader ==
    LET rows == SelectSeq(srcFile, LAMBDA l : l # <<>>)
    IN IF rows = <<>> THEN <<>> ELSE Tail(rows)
FileOrderEvents ==
    [i \in 1..Len(RowsAfterHeader) |-> DividendOfRow(RowsAfterHeader[i]).value]

\* C9 (as claimed): read_src_file returns one event per row after the header
\* in the order of the rows in the source.
C9_FileOrder ==
    (pc = "daily_dividends") => events = FileOrderEvents

\* C9 (amended): read_src_file returns one event per row after the header,
\* sorted ascending by date, rows of equal date in their file order.
C9_SortedByDate ==
    (pc = "daily_dividends") =>
        /\ Len(events) = Len(FileOrderEvents)
        /\ Ascending(events)
        /\ \E p \in Perms(Len(events)) :
              /\ \A i \in 1..Len(events) : events[i] = FileOrderEvents[p[i]]
              /\ \A i, j \in 1..Len(events) :
                    (i < j /\ events[i].date = events[j].date) => p[i] < p[j]

\* C9 witness: read_src_file returned for a source whose rows are not in
\* ascending date order.
C9_Witness ==
      /\ pc = "daily_dividends"
      /\ Len(events) >= 2
      /\ ~Ascending(FileOrderEvents)

\* C10 (as claimed): when the run has ended, normally or with an error,
\* neither the read handle nor the write handle is open.
C10_HandlesReleased ==
    (pc \in {"done", "failed", "returned1"}) =>
        (readHandle # "open" /\ writeHandle # "open")

====
